---- MODULE Spec2Model ----
(***************************************************************************)
(* MES planning API (src/app/main.py): the forecast store, the reorder     *)
(* planner and the purchase-order orchestrator, each HTTP handler one      *)
(* atomic action.  The ERP service is the environment: its answers are     *)
(* inputs of the actions.                                                  *)
(*                                                                         *)
(* Conventions.  An optional JSON value is a sequence: <<>> is null or a   *)
(* missing key (dict.get gives None for both, and m[key] / int(None) both  *)
(* raise), <<v>> is the value v.  usage_rate_per_day is a float; it is     *)
(* kept as an exact count of HALVES per day, so 3 stands for 1.5.          *)
(***************************************************************************)
EXTENDS Integers, Sequences, FiniteSets, TLC

VARIABLES
    forecasts,   \* table "forecasts": a set of rows [id, part_code, forecasted_usage]
    erpInventory,\* inventory the ERP holds: the JSON list GET /inventory/ serves
    erpOrders,   \* purchase orders the ERP holds: sequence of [part_id, created_at]
    now,         \* wall clock, in hours
    req,         \* the request the last handler served
    calls,       \* outbound ERP calls the last handler made, in order
    erpAns,      \* what the ERP answered to the last outbound call
    resp         \* the response the last handler gave its caller

vars == <<forecasts, erpInventory, erpOrders, now, req, calls, erpAns, resp>>

---------------------------------------------------------------------------
\* Bounds of the model.
MaxRows == 2        \* rows in the forecasts table
MaxId == 3          \* largest forecast id handed out
MaxInv == 2         \* records in one ERP inventory payload
MaxOrders == 2      \* purchase orders the ERP holds
MaxNow == 2         \* hours the clock advances
MaxStock == 3       \* current_stock values of the planner input space
MaxReorderPoint == 2
MaxLeadTime == 2
MaxRate == 3        \* usage_rate_per_day, in halves
MaxWindowRows == 2  \* forecast rows of the planner input space

None == <<>>
Some(v) == <<v>>
OrZero(x) == IF x = None THEN 0 ELSE x[1]     \* int(m.get(k) or 0)
Max2(a, b) == IF a >= b THEN a ELSE b

PartCodes == {"P-001", "P-002"}

NoCall == [kind |-> "none"]

---------------------------------------------------------------------------
\* Forecast store

\* ForecastIn: part_code min_length=1, forecasted_usage conint(ge=0)
ValidForecastIn(p) == p.part_code # "" /\ p.forecasted_usage >= 0

ForecastIds(fs) == {f.id : f \in fs}

RowOf(fs, fid) == CHOOSE f \in fs : f.id = fid

\* SQLite INTEGER PRIMARY KEY without AUTOINCREMENT: largest rowid + 1
NewId(fs) ==
    IF fs = {} THEN 1
    ELSE (CHOOSE i \in ForecastIds(fs) : \A j \in ForecastIds(fs) : j <= i) + 1

\* rows in ascending id order (ORDER BY id; also the rowid scan order)
RECURSIVE RowsById(_)
RowsById(fs) ==
    IF fs = {} THEN <<>>
    ELSE LET lo == CHOOSE f \in fs : \A g \in fs : f.id <= g.id
         IN <<lo>> \o RowsById(fs \ {lo})

ForecastPayloads ==
    [part_code : PartCodes \cup {""}, forecasted_usage : {-1, 1, 2}]

list_forecast ==
    /\ req' = [op |-> "list_forecast"]
    /\ calls' = <<>>
    /\ erpAns' = NoCall
    /\ resp' = [status |-> 200, body |-> RowsById(forecasts)]
    /\ UNCHANGED <<forecasts, erpInventory, erpOrders, now>>

create_forecast(p) ==
    /\ req' = [op |-> "create_forecast", payload |-> p]
    /\ calls' = <<>>
    /\ erpAns' = NoCall
    /\ IF ~ValidForecastIn(p)
       THEN /\ resp' = [status |-> 422]
            /\ UNCHANGED forecasts
       ELSE /\ Cardinality(forecasts) < MaxRows
            /\ NewId(forecasts) <= MaxId
            /\ LET row == [id |-> NewId(forecasts),
                           part_code |-> p.part_code,
                           forecasted_usage |-> p.forecasted_usage]
               IN /\ forecasts' = forecasts \cup {row}
                  /\ resp' = [status |-> 201, body |-> row]
    /\ UNCHANGED <<erpInventory, erpOrders, now>>

\* faulty variant: a missing row is written instead of refused
update_forecast_upsert(fid, p) ==
    /\ req' = [op |-> "update_forecast", fid |-> fid, payload |-> p]
    /\ calls' = <<>>
    /\ erpAns' = NoCall
    /\ IF ~ValidForecastIn(p)
       THEN /\ resp' = [status |-> 422]
            /\ UNCHANGED forecasts
       ELSE LET row == [id |-> fid,
                        part_code |-> p.part_code,
                        forecasted_usage |-> p.forecasted_usage]
            IN /\ forecasts' = {f \in forecasts : f.id # fid} \cup {row}
               /\ resp' = [status |-> 200, body |-> row]
    /\ UNCHANGED <<erpInventory, erpOrders, now>>

update_forecast(fid, p) ==
    /\ req' = [op |-> "update_forecast", fid |-> fid, payload |-> p]
    /\ calls' = <<>>
    /\ erpAns' = NoCall
    /\ IF ~ValidForecastIn(p)
       THEN /\ resp' = [status |-> 422]
            /\ UNCHANGED forecasts
       ELSE IF fid \notin ForecastIds(forecasts)
       THEN /\ resp' = [status |-> 404, detail |-> "forecast not found"]
            /\ UNCHANGED forecasts
       ELSE LET row == [id |-> fid,
                        part_code |-> p.part_code,
                        forecasted_usage |-> p.forecasted_usage]
            IN /\ forecasts' = (forecasts \ {RowOf(forecasts, fid)}) \cup {row}
               /\ resp' = [status |-> 200, body |-> row]
    /\ UNCHANGED <<erpInventory, erpOrders, now>>

\* status of a delete whose row lookup found nothing: the handler returns
DeleteMissingStatus == 204

delete_forecast(fid) ==
    /\ req' = [op |-> "delete_forecast", fid |-> fid]
    /\ calls' = <<>>
    /\ erpAns' = NoCall
    /\ IF fid \notin ForecastIds(forecasts)
       THEN /\ resp' = [status |-> DeleteMissingStatus]
            /\ UNCHANGED forecasts
       ELSE /\ forecasts' = forecasts \ {RowOf(forecasts, fid)}
            /\ resp' = [status |-> 204]
    /\ UNCHANGED <<erpInventory, erpOrders, now>>

---------------------------------------------------------------------------
\* Reorder planner

\* faulty variant: stock at the reorder point counts as below it
_urgency_inclusive(stock, usage_per_day, lead_time_days, reorder_point, window) ==
    IF 2 * stock < usage_per_day * lead_time_days THEN "Critical"
    ELSE IF stock <= reorder_point THEN "High"
    ELSE IF stock <= reorder_point + window THEN "Medium"
    ELSE "Low"

\* stock < usage_per_day * lead_time_days, the rate being in halves
_urgency(stock, usage_per_day, lead_time_days, reorder_point, window) ==
    IF 2 * stock < usage_per_day * lead_time_days THEN "Critical"
    ELSE IF stock < reorder_point THEN "High"
    ELSE IF stock <= reorder_point + window THEN "Medium"
    ELSE "Low"

\* faulty variant: the difference is not clamped at 0
_recommend_qty_unclamped(stock, reorder_point, window, max_threshold) ==
    LET target == IF max_threshold # None THEN max_threshold[1]
                  ELSE reorder_point + window
    IN target - stock

_recommend_qty(stock, reorder_point, window, max_threshold) ==
    LET target == IF max_threshold # None THEN max_threshold[1]
                  ELSE reorder_point + window
    IN Max2(0, target - stock)

\* usage_by_code.get(code, 0)
DictGet(d, k, default) == IF k \in DOMAIN d THEN d[k] ELSE default

\* faulty variant: a row replaces the running total of its code
OverwriteUsage(d, f) ==
    [k \in DOMAIN d \cup {f.part_code} |->
        IF k = f.part_code THEN f.forecasted_usage ELSE d[k]]

\* usage_by_code[code] = usage_by_code.get(code, 0) + int(f.forecasted_usage or 0)
AccumulateUsage(d, f) ==
    [k \in DOMAIN d \cup {f.part_code} |->
        IF k = f.part_code THEN DictGet(d, k, 0) + f.forecasted_usage ELSE d[k]]

RECURSIVE FoldUsage(_, _)
FoldUsage(d, rows) ==
    IF rows = <<>> THEN d
    ELSE FoldUsage(AccumulateUsage(d, Head(rows)), Tail(rows))

usage_by_code(fs) == FoldUsage([k \in {} |-> 0], RowsById(fs))

\* faulty variant: only a missing code is skipped, an empty one is kept
HasCodeKey(m) == m.part_code # None

\* `if not code: continue` skips None and the empty string
HasCode(m) == m.part_code # None /\ m.part_code[1] # ""

\* order = {"Critical": 0, "High": 1, "Medium": 2, "Low": 3}; order.get(u, 9)
Rank(u) ==
    CASE u = "Critical" -> 0
      [] u = "High" -> 1
      [] u = "Medium" -> 2
      [] u = "Low" -> 3
      [] OTHER -> 9

\* key=lambda x: (order.get(x.urgency, 9), -x.recommendedQuantity)
SortKey(c) == <<Rank(c.urgency), 0 - c.recommendedQuantity>>

KeyLess(a, b) == a[1] < b[1] \/ (a[1] = b[1] /\ a[2] < b[2])
KeyLE(a, b) == ~KeyLess(b, a)

\* faulty variant: an element goes before the elements it ties with
UnstableInsert(s, x) ==
    LET k == Cardinality({i \in DOMAIN s : KeyLess(SortKey(s[i]), SortKey(x))})
    IN SubSeq(s, 1, k) \o <<x>> \o SubSeq(s, k + 1, Len(s))

\* list.sort is stable: an element goes after every element that does not
\* compare greater than it
StableInsert(s, x) ==
    LET k == Cardinality({i \in DOMAIN s : KeyLE(SortKey(s[i]), SortKey(x))})
    IN SubSeq(s, 1, k) \o <<x>> \o SubSeq(s, k + 1, Len(s))

RECURSIVE SortCandidates(_)
SortCandidates(s) ==
    IF s = <<>> THEN <<>>
    ELSE StableInsert(SortCandidates(SubSeq(s, 1, Len(s) - 1)), s[Len(s)])

\* days_left = stock / max(1e-9, upd); utcnow() + timedelta(days=days_left)
\* raises OverflowError past date.max (year 9999): with a zero rate the
\* quotient is stock * 1e9 days, beyond timedelta's range for any stock > 0.
DepletionOverflows(stock, rate) ==
    IF rate = 0 THEN stock > 0
    ELSE 2 * stock > rate * ((9999 - 2026) * 365)

\* whole days from today to the depletion date; `carry` says whether the
\* fractional part of days_left crosses midnight from the current time of day
DepletionDays(stock, rate, carry) ==
    IF rate = 0 THEN 0
    ELSE (2 * stock) \div rate
         + (IF (2 * stock) % rate # 0 /\ carry THEN 1 ELSE 0)

\* m["part_id"], m["part_name"] (KeyError, TypeError, ValidationError) and
\* the depletion date are the places the loop body can raise
RecordRaises(m) ==
    \/ m.part_id = None
    \/ m.part_name = None
    \/ DepletionOverflows(OrZero(m.current_stock), OrZero(m.usage_rate_per_day))

BuildCandidate(m, usage, carry) ==
    LET code == m.part_code[1]
        window == DictGet(usage, code, 0)
        stock == OrZero(m.current_stock)
        rp == OrZero(m.reorder_point)
        ltd == OrZero(m.lead_time_days)
        upd == OrZero(m.usage_rate_per_day)
    IN [part_id |-> m.part_id[1],
        part_code |-> code,
        part_name |-> m.part_name[1],
        current_stock |-> stock,
        reorder_point |-> rp,
        lead_time_days |-> ltd,
        usage_rate_per_day |-> upd,
        window_demand |-> window,
        urgency |-> _urgency(stock, upd, ltd, rp, window),
        recommendedQuantity |-> _recommend_qty(stock, rp, window, m.max_threshold),
        depletionDate |-> DepletionDays(stock, upd, carry)]

\* steps 2 and 3 of the handler, given the parsed inventory
PlanResponse(inv, fs, carry) ==
    LET usage == usage_by_code(fs)
        kept == SelectSeq(inv, HasCode)
    IN IF \E i \in DOMAIN kept : RecordRaises(kept[i])
       THEN [status |-> 500]
       ELSE [status |-> 200,
             body |-> SortCandidates(
                        [i \in DOMAIN kept |-> BuildCandidate(kept[i], usage, carry)])]

FetchFailed(ans) ==
    \/ ans.kind = "neterr"
    \/ ans.kind = "http" /\ (ans.status # 200 \/ ~ans.parses)

reorder_candidates(horizon_days, ans, carry) ==
    /\ req' = [op |-> "reorder_candidates", horizon_days |-> horizon_days]
    /\ IF horizon_days < 1 \/ horizon_days > 90
       THEN /\ calls' = <<>>
            /\ erpAns' = NoCall
            /\ resp' = [status |-> 422]
       ELSE /\ calls' = <<[method |-> "GET", path |-> "/inventory/"]>>
            /\ erpAns' = ans
            /\ resp' = IF FetchFailed(ans)
                       THEN [status |-> 502, detail |-> "ERP inventory fetch failed"]
                       ELSE PlanResponse(ans.body, forecasts, carry)
    /\ UNCHANGED <<forecasts, erpInventory, erpOrders, now>>

---------------------------------------------------------------------------
\* Purchase-order orchestrator

PartIds == {7, 42}

PORequests ==
    [part_id : PartIds,
     quantity : {0, 1},
     correlation_id : {None, Some("c-1")},
     lookback_hours : {0, 1, 24},
     allow_duplicate : BOOLEAN]

\* the ERP's own duplicate rule: an order for the part inside the window
ErpDuplicate(orders, t, part_id, lookback_hours) ==
    /\ lookback_hours > 0
    /\ \E i \in DOMAIN orders :
          /\ orders[i].part_id = part_id
          /\ t - orders[i].created_at < lookback_hours

\* answers the ERP can give to POST /purchase-orders/?lookback_hours=N
ErpPoAnswers(orders, t, r) ==
    {[kind |-> "neterr"],
     [kind |-> "http", status |-> 500, parses |-> FALSE,
      body |-> [text |-> "Internal Server Error"]]}
    \cup
    (IF ErpDuplicate(orders, t, r.part_id, r.lookback_hours)
     THEN {[kind |-> "http", status |-> 409, parses |-> TRUE,
            body |-> [text |-> "duplicate purchase order"]]}
     ELSE IF Len(orders) < MaxOrders
     THEN {[kind |-> "http", status |-> 201, parses |-> TRUE,
            body |-> [id |-> Len(orders) + 1, part_id |-> r.part_id, created_at |-> t]],
           [kind |-> "http", status |-> 201, parses |-> FALSE, body |-> [text |-> ""]]}
     ELSE {})

\* the try block of create_po, once the POST is answered
PoResponse(r, ans) ==
    IF ans.kind = "neterr"
    THEN [status |-> 502,
          detail |-> [msg |-> "ERP PO create failed", exc |-> "TransportError"]]
    ELSE IF ans.status = 409 /\ ~r.allow_duplicate
    THEN [status |-> 409, detail |-> [msg |-> ans.body]]
    ELSE IF ans.status < 200 \/ ans.status > 299
    THEN [status |-> 502,
          detail |-> [msg |-> "ERP PO create failed", exc |-> "HTTPStatusError",
                      upstream_status |-> ans.status]]
    ELSE IF ~ans.parses
    THEN [status |-> 502,
          detail |-> [msg |-> "ERP PO create failed", exc |-> "JSONDecodeError"]]
    ELSE [status |-> 200, body |-> ans.body]

create_po(r, ans, gen) ==
    /\ req' = [op |-> "create_po", payload |-> r]
    /\ IF r.quantity <= 0
       THEN /\ calls' = <<>>
            /\ erpAns' = NoCall
            /\ resp' = [status |-> 422]
            /\ UNCHANGED erpOrders
       ELSE LET corr == IF r.correlation_id = None THEN gen ELSE r.correlation_id[1]
                params == [lookback_hours |-> ToString(r.lookback_hours)]
                body == [part_id |-> r.part_id,
                         quantity |-> r.quantity,
                         urgency |-> None,
                         reason |-> "Created by MES planner",
                         correlation_id |-> corr]
            IN /\ ans \in ErpPoAnswers(erpOrders, now, r)
               /\ calls' = <<[method |-> "POST", path |-> "/purchase-orders/",
                              params |-> params, json |-> body]>>
               /\ erpAns' = ans
               /\ resp' = PoResponse(r, ans)
               /\ erpOrders' = IF ans.kind = "http" /\ ans.status = 201 /\ ans.parses
                               THEN Append(erpOrders,
                                           [part_id |-> r.part_id, created_at |-> now])
                               ELSE erpOrders
    /\ UNCHANGED <<forecasts, erpInventory, now>>

\* an hour passes
Tick ==
    /\ now < MaxNow
    /\ now' = now + 1
    /\ UNCHANGED <<forecasts, erpInventory, erpOrders, req, calls, erpAns, resp>>

---------------------------------------------------------------------------
\* Inputs

MkRecord(id, name, code, stock, rp, ltd, rate, maxthr) ==
    [part_id |-> id, part_name |-> name, part_code |-> code,
     current_stock |-> stock, reorder_point |-> rp, lead_time_days |-> ltd,
     usage_rate_per_day |-> rate, max_threshold |-> maxthr]

\* inventory records of the planner input space, for payloads of several
\* records: two parts that tie on every sort key, all four urgencies,
\* records without a code and records without an identifying field
InvRecords ==
    {MkRecord(Some(id), Some("bolt"), Some("P-001"), Some(stock), Some(2), Some(1),
              Some(2), None) : id \in {1, 2}, stock \in {0, 4}}
    \cup
    {MkRecord(Some(2), Some("nut"), Some("P-002"), Some(1), Some(2), Some(1), Some(2), None),
     MkRecord(Some(1), Some("rod"), None, Some(1), Some(2), Some(1), Some(2), None),
     MkRecord(Some(2), Some("pin"), Some(""), Some(1), Some(2), Some(1), Some(2), None),
     MkRecord(None, Some("cap"), Some("P-001"), Some(1), Some(2), Some(1), Some(2), None),
     MkRecord(Some(1), None, None, Some(1), Some(2), Some(1), Some(2), None)}

SeqsUpTo(S, n) == UNION {[1..k -> S] : k \in 0..n}

OkAnswer(inv) == [kind |-> "http", status |-> 200, parses |-> TRUE, body |-> inv]

\* answers the ERP can give to GET /inventory/
InventoryAnswers(inv) ==
    {[kind |-> "neterr"],
     [kind |-> "http", status |-> 503, parses |-> FALSE, body |-> <<>>],
     [kind |-> "http", status |-> 200, parses |-> FALSE, body |-> <<>>],
     OkAnswer(inv)}

\* inventories of the stateful specification: both parts, a record without
\* a code, a coded record without part_id, a coded one without part_name
StoreInventories ==
    {<<MkRecord(Some(1), Some("bolt"), Some("P-001"), Some(4), Some(2), Some(1), Some(2), None),
       MkRecord(Some(2), Some("nut"), Some("P-002"), Some(1), Some(2), Some(1), Some(2), None)>>,
     <<MkRecord(Some(1), Some("rod"), None, Some(1), Some(2), Some(1), Some(2), None),
       MkRecord(Some(2), Some("nut"), Some("P-002"), Some(1), Some(2), Some(1), Some(2), None)>>,
     <<MkRecord(Some(1), Some("bolt"), Some("P-001"), Some(4), Some(2), Some(1), Some(2), None),
       MkRecord(None, Some("cap"), Some("P-001"), Some(1), Some(2), Some(1), Some(2), None)>>,
     <<MkRecord(Some(2), Some("nut"), Some("P-002"), Some(1), Some(2), Some(1), Some(2), None),
       MkRecord(Some(1), None, Some("P-001"), Some(4), Some(2), Some(1), Some(2), None)>>}

Horizons == {0, 7}

\* inventory records of the planner input space: one coded part, every
\* combination of the five inputs of the classification and of the cap
PlannerRecords ==
    {MkRecord(Some(1), Some("bolt"), Some("P-001"), stock, Some(rp), Some(ltd), rate, maxthr) :
        stock \in {None} \cup {Some(v) : v \in 0..MaxStock},
        rp \in 0..MaxReorderPoint,
        ltd \in 0..MaxLeadTime,
        rate \in {None} \cup {Some(v) : v \in 1..MaxRate},
        maxthr \in {None, Some(0), Some(2), Some(5)}}

\* stores of k rows of one unit each for P-001: window_demand = k
PlannerStores ==
    {{[id |-> i, part_code |-> "P-001", forecasted_usage |-> 1] : i \in 1..k} :
        k \in 0..MaxWindowRows}

---------------------------------------------------------------------------
\* Specifications

Init ==
    /\ forecasts = {}
    /\ erpInventory \in StoreInventories
    /\ erpOrders = <<>>
    /\ now = 0
    /\ req = [op |-> "none"]
    /\ calls = <<>>
    /\ erpAns = NoCall
    /\ resp = [status |-> 0]

\* forecast store and planner
Next ==
    \/ list_forecast
    \/ \E p \in ForecastPayloads : create_forecast(p)
    \/ \E fid \in 1..MaxId, p \in ForecastPayloads : update_forecast(fid, p)
    \/ \E fid \in 1..MaxId : delete_forecast(fid)
    \/ \E h \in Horizons, ans \in InventoryAnswers(erpInventory), carry \in BOOLEAN :
          reorder_candidates(h, ans, carry)

Spec == Init /\ [][Next]_vars

\* the planner over its input space: the store and the ERP inventory are
\* drawn, the handler is applied to them
InitPlanner ==
    /\ forecasts \in PlannerStores
    /\ erpInventory \in SeqsUpTo(InvRecords, MaxInv) \cup {<<m>> : m \in PlannerRecords}
    /\ erpOrders = <<>>
    /\ now = 0
    /\ req = [op |-> "none"]
    /\ calls = <<>>
    /\ erpAns = NoCall
    /\ resp = [status |-> 0]

NextPlanner ==
    \E h \in Horizons, ans \in InventoryAnswers(erpInventory), carry \in BOOLEAN :
        reorder_candidates(h, ans, carry)

SpecPlanner == InitPlanner /\ [][NextPlanner]_vars

\* the purchase-order orchestrator against the ERP
InitPO ==
    /\ forecasts = {}
    /\ erpInventory = <<>>
    /\ erpOrders = <<>>
    /\ now = 0
    /\ req = [op |-> "none"]
    /\ calls = <<>>
    /\ erpAns = NoCall
    /\ resp = [status |-> 0]

NextPO ==
    \/ Tick
    \/ \E r \in PORequests, gen \in {"mes-0a1b2c3d"} :
          \E ans \in ErpPoAnswers(erpOrders, now, r) : create_po(r, ans, gen)

SpecPO == InitPO /\ [][NextPO]_vars

---------------------------------------------------------------------------
\* Properties

Planned == req.op = "reorder_candidates" /\ resp.status = 200

PoSent == req.op = "create_po" /\ calls # <<>>

WithinLookback(orders, t, part_id, lookback_hours) ==
    \E i \in DOMAIN orders :
        /\ orders[i].part_id = part_id
        /\ t - orders[i].created_at <= lookback_hours

\* C1: when allow_duplicate is false, lookback_hours > 0 and the ERP holds an
\* order for the part created inside the lookback window, create_po answers
\* 409 and sends no POST; with allow_duplicate true the POST is sent.
C1_ClientGuardNoWrite ==
    [][(now' = now /\ req'.op = "create_po" /\ req'.payload.quantity > 0)
        => /\ (/\ ~req'.payload.allow_duplicate
               /\ req'.payload.lookback_hours > 0
               /\ WithinLookback(erpOrders, now, req'.payload.part_id,
                                 req'.payload.lookback_hours))
               => (resp'.status = 409 /\ calls' = <<>>)
           /\ req'.payload.allow_duplicate => calls' # <<>>]_vars

\* C2: every POST carries the request's lookback_hours, and a 409 answer of
\* the ERP reaches the caller as a 409 whatever allow_duplicate is.
C2_ServerConflictSurfaced ==
    PoSent =>
        /\ \A i \in DOMAIN calls :
              calls[i].params.lookback_hours = ToString(req.payload.lookback_hours)
        /\ (erpAns.kind = "http" /\ erpAns.status = 409) => resp.status = 409

\* C10: a non-success answer other than 409 reaches the caller as an upstream
\* error carrying the ERP's status and body, a transport failure as the
\* 502 unavailable outcome, the two differ, and one POST is sent either way.
C10_UpstreamFailuresDistinct ==
    PoSent =>
        /\ Len(calls) = 1
        /\ erpAns.kind = "neterr" => resp.status = 502
        /\ (/\ erpAns.kind = "http"
            /\ (erpAns.status < 200 \/ erpAns.status > 299)
            /\ erpAns.status # 409)
           => /\ resp.status # 502
              /\ "upstream_status" \in DOMAIN resp.detail
              /\ "upstream_body" \in DOMAIN resp.detail

MalformedRecord(m) == m.part_id = None \/ m.part_name = None

InventoryFetchFails(ans) ==
    \/ ans.kind = "neterr"
    \/ ans.kind = "http" /\ (ans.status # 200 \/ ~ans.parses)
    \/ /\ ans.kind = "http" /\ ans.status = 200 /\ ans.parses
       /\ \E i \in DOMAIN ans.body : MalformedRecord(ans.body[i])

\* C8: when the inventory fetch fails (transport, status, unparsable body, or
\* a record without part_id or part_name) the planner answers 502 and gives
\* no candidate list.
C8_FetchFailureIs502 ==
    (req.op = "reorder_candidates" /\ calls # <<>> /\ InventoryFetchFails(erpAns))
        => (resp.status = 502 /\ "body" \notin DOMAIN resp)

UnknownId(op) ==
    /\ req'.op = op
    /\ req'.fid \notin ForecastIds(forecasts)
    /\ (op = "update_forecast" => ValidForecastIn(req'.payload))

\* C9 as stated: update and delete of an id no row has answer 404 and leave
\* the table as it was.
C9_UnknownIdIs404 ==
    [][(UnknownId("update_forecast") \/ UnknownId("delete_forecast"))
        => (resp'.status = 404 /\ forecasts' = forecasts)]_vars

\* C9: update of an id no row has answers 404, delete of an id no row has
\* answers 204 without an error, and both leave the table as it was.
C9_UnknownIdLeavesStore ==
    [][/\ UnknownId("update_forecast")
          => (resp'.status = 404 /\ forecasts' = forecasts)
       /\ UnknownId("delete_forecast")
          => (resp'.status = 204 /\ forecasts' = forecasts)]_vars

\* a delete of an unknown id on a full table: no row can have been removed
C9_Witness ==
    /\ req.op = "delete_forecast"
    /\ req.fid \notin ForecastIds(forecasts)
    /\ Cardinality(forecasts) = MaxRows
    /\ resp.status = 204

RECURSIVE SumOver(_)
SumOver(rows) ==
    IF rows = {} THEN 0
    ELSE LET f == CHOOSE x \in rows : TRUE
         IN f.forecasted_usage + SumOver(rows \ {f})

TotalUsage(fs, code) == SumOver({f \in fs : f.part_code = code})

\* C6: every candidate's window_demand is the sum of forecasted_usage over
\* the rows stored with its part_code, 0 when there is none.
C6_WindowDemandIsSum ==
    Planned =>
        \A i \in DOMAIN resp.body :
            resp.body[i].window_demand = TotalUsage(forecasts, resp.body[i].part_code)

\* two rows of one code left after row 1 was deleted, none of the other code
C6_Witness ==
    /\ Planned
    /\ ForecastIds(forecasts) = {2, 3}
    /\ \E i, j \in DOMAIN resp.body :
          /\ resp.body[i].window_demand = 3
          /\ resp.body[j].window_demand = 0

Coded(m) == m.part_code \notin {None, Some("")}

\* C7: the planner returns one candidate per inventory record that has a
\* non-empty part_code and none for the others.
C7_OneCandidatePerCodedRecord ==
    Planned =>
        Len(resp.body) = Cardinality({k \in DOMAIN erpAns.body : Coded(erpAns.body[k])})

\* a coded and an uncoded record, no forecast stored
C7_Witness ==
    /\ Planned
    /\ forecasts = {}
    /\ Len(erpAns.body) = 2
    /\ Len(resp.body) = 1

UrgencyRank(u) == CHOOSE n \in 0..3 : <<"Critical", "High", "Medium", "Low">>[n + 1] = u

Before(a, b) ==
    \/ UrgencyRank(a.urgency) < UrgencyRank(b.urgency)
    \/ /\ UrgencyRank(a.urgency) = UrgencyRank(b.urgency)
       /\ a.recommendedQuantity > b.recommendedQuantity

CameFrom(c, m) ==
    /\ Coded(m)
    /\ m.part_id = Some(c.part_id)
    /\ m.part_name = Some(c.part_name)
    /\ m.part_code = Some(c.part_code)
    /\ OrZero(m.current_stock) = c.current_stock

StatedUrgency(c) ==
    IF c.usage_rate_per_day * c.lead_time_days > 2 * c.current_stock THEN "Critical"
    ELSE IF c.current_stock < c.reorder_point THEN "High"
    ELSE IF c.window_demand > 0 /\ c.current_stock <= c.reorder_point + c.window_demand
    THEN "Medium"
    ELSE "Low"

\* C3 as stated: Critical if rate * lead time > stock, else High if stock <
\* reorder point, else Medium if window_demand > 0 and stock <= reorder point
\* + window_demand, else Low.
C3_UrgencyAsStated ==
    Planned => \A i \in DOMAIN resp.body : resp.body[i].urgency = StatedUrgency(resp.body[i])

ActualUrgency(c) ==
    IF c.usage_rate_per_day * c.lead_time_days > 2 * c.current_stock THEN "Critical"
    ELSE IF c.current_stock < c.reorder_point THEN "High"
    ELSE IF c.current_stock <= c.reorder_point + c.window_demand THEN "Medium"
    ELSE "Low"

\* C3: Critical if rate * lead time > stock, else High if stock < reorder
\* point, else Medium if stock <= reorder point + window_demand, else Low.
C3_UrgencyFirstMatch ==
    Planned => \A i \in DOMAIN resp.body : resp.body[i].urgency = ActualUrgency(resp.body[i])

\* no demand, stock exactly at the reorder point, neither Critical nor High
C3_Witness ==
    /\ Planned
    /\ \E i \in DOMAIN resp.body :
          /\ resp.body[i].window_demand = 0
          /\ resp.body[i].current_stock = resp.body[i].reorder_point
          /\ resp.body[i].urgency = "Medium"

StatedQuantity(c, m) ==
    LET target == IF m.max_threshold # None THEN m.max_threshold[1]
                  ELSE c.reorder_point + c.window_demand
    IN IF target - c.current_stock > 0 THEN target - c.current_stock ELSE 0

\* C4: recommendedQuantity = max(0, target - current_stock), target being
\* max_threshold when the record has one and reorder_point + window_demand
\* otherwise; so it is never negative.
C4_RecommendedQuantity ==
    Planned =>
        \A i \in DOMAIN resp.body :
            /\ resp.body[i].recommendedQuantity >= 0
            /\ \E k \in DOMAIN erpAns.body :
                  /\ CameFrom(resp.body[i], erpAns.body[k])
                  /\ resp.body[i].recommendedQuantity
                        = StatedQuantity(resp.body[i], erpAns.body[k])

\* a cap below the stock: the difference is negative and the quantity is 0
C4_Witness ==
    /\ Planned
    /\ Len(erpAns.body) = 1
    /\ erpAns.body[1].max_threshold = Some(0)
    /\ resp.body[1].current_stock > 0
    /\ resp.body[1].recommendedQuantity = 0

====
